---------------------------- MODULE Spec2Model ----------------------------
(***************************************************************************)
(* Model of src/models.rs of chat-gpt-lib-rs: the closed enum Model with   *)
(* its Display / FromStr / max_tokens / serde conversions, the ModelError  *)
(* type, the LogitBias map and the Role enum.                              *)
(*                                                                         *)
(* Model wire names are TLA+ strings (the code only compares them for      *)
(* equality).  Role names are sequences of one-character strings, because  *)
(* serde's rename_all = "lowercase" computes the wire name from the        *)
(* variant's identifier character by character.                            *)
(* f64 biases are modelled in tenths (25 is 2.5, -13 is -1.3, 0 is 0.0).   *)
(***************************************************************************)
EXTENDS Integers, Sequences, FiniteSets

VARIABLES op, arg, res, biases, inserted

vars == <<op, arg, res, biases, inserted>>

(***************************************************************************)
(* Bounds and input sets                                                   *)
(***************************************************************************)
\* at most this many HashMap insertions are explored
MaxInserts == 3

\* token ids (u32 keys) that are inserted: the two of the repository's test
InsertIds == {42, 123}

\* token ids that are looked up: the inserted ones and 999, never inserted
TokenIds == InsertIds \cup {999}

\* biases in tenths: 2.5, -1.3 and the zero bias
BiasValues == {25, -13, 0}

(***************************************************************************)
(* Result and Option values                                                *)
(***************************************************************************)
Ok(v) == [ok |-> TRUE, val |-> v]

Err(e) == [ok |-> FALSE, err |-> e]

Some(v) == [some |-> TRUE, val |-> v]

None == [some |-> FALSE]

(***************************************************************************)
(* enum Model                                                              *)
(***************************************************************************)
\* the variants in declaration order
ModelVariants ==
    <<"Gpt3_5Turbo", "Gpt_4", "Gpt_4_32k", "Gpt_4Turbo", "Gpt_4o",
      "Gpt_4Turbo_Vision">>

Model == {ModelVariants[i] : i \in 1..Len(ModelVariants)}

\* a max_tokens that lost the 32k entry's last doubling
max_tokens_stale(self) ==
    CASE self = "Gpt3_5Turbo" -> 4096
      [] self = "Gpt_4" -> 8192
      [] self = "Gpt_4_32k" -> 8192
      [] self = "Gpt_4o" -> 128000
      [] self = "Gpt_4Turbo" -> 128000
      [] self = "Gpt_4Turbo_Vision" -> 128000

\* Model::max_tokens
max_tokens(self) ==
    CASE self = "Gpt3_5Turbo" -> 4096
      [] self = "Gpt_4" -> 8192
      [] self = "Gpt_4_32k" -> 32768
      [] self = "Gpt_4o" -> 128000
      [] self = "Gpt_4Turbo" -> 128000
      [] self = "Gpt_4Turbo_Vision" -> 128000

\* a Display whose Gpt_4o arm was copied from the Gpt_4 arm
to_string_dup(self) ==
    CASE self = "Gpt3_5Turbo" -> "gpt-3.5-turbo"
      [] self = "Gpt_4" -> "gpt-4"
      [] self = "Gpt_4_32k" -> "gpt-4-32k"
      [] self = "Gpt_4o" -> "gpt-4"
      [] self = "Gpt_4Turbo" -> "gpt-4-1106-preview"
      [] self = "Gpt_4Turbo_Vision" -> "gpt-4-vision-preview"

\* impl Display for Model (fmt, as used by to_string / format!)
to_string(self) ==
    CASE self = "Gpt3_5Turbo" -> "gpt-3.5-turbo"
      [] self = "Gpt_4" -> "gpt-4"
      [] self = "Gpt_4_32k" -> "gpt-4-32k"
      [] self = "Gpt_4o" -> "gpt-4o"
      [] self = "Gpt_4Turbo" -> "gpt-4-1106-preview"
      [] self = "Gpt_4Turbo_Vision" -> "gpt-4-vision-preview"

\* ModelError::UnsupportedModel(String)
UnsupportedModel(s) == [kind |-> "UnsupportedModel", payload |-> s]

\* a from_str with an extra arm accepting the alias "gpt-4-turbo"
from_str_alias(s) ==
    IF s = "gpt-3.5-turbo" THEN Ok("Gpt3_5Turbo")
    ELSE IF s = "gpt-4" THEN Ok("Gpt_4")
    ELSE IF s = "gpt-4-32k" THEN Ok("Gpt_4_32k")
    ELSE IF s = "gpt-4o" THEN Ok("Gpt_4o")
    ELSE IF s = "gpt-4-1106-preview" THEN Ok("Gpt_4Turbo")
    ELSE IF s = "gpt-4-turbo" THEN Ok("Gpt_4Turbo")
    ELSE IF s = "gpt-4-vision-preview" THEN Ok("Gpt_4Turbo_Vision")
    ELSE Err(UnsupportedModel(s))

\* a from_str whose wildcard arm falls back to a default variant
from_str_default(s) ==
    IF s = "gpt-3.5-turbo" THEN Ok("Gpt3_5Turbo")
    ELSE IF s = "gpt-4" THEN Ok("Gpt_4")
    ELSE IF s = "gpt-4-32k" THEN Ok("Gpt_4_32k")
    ELSE IF s = "gpt-4o" THEN Ok("Gpt_4o")
    ELSE IF s = "gpt-4-1106-preview" THEN Ok("Gpt_4Turbo")
    ELSE IF s = "gpt-4-vision-preview" THEN Ok("Gpt_4Turbo_Vision")
    ELSE Ok("Gpt3_5Turbo")

\* impl FromStr for Model: the match arms in source order
from_str(s) ==
    IF s = "gpt-3.5-turbo" THEN Ok("Gpt3_5Turbo")
    ELSE IF s = "gpt-4" THEN Ok("Gpt_4")
    ELSE IF s = "gpt-4-32k" THEN Ok("Gpt_4_32k")
    ELSE IF s = "gpt-4o" THEN Ok("Gpt_4o")
    ELSE IF s = "gpt-4-1106-preview" THEN Ok("Gpt_4Turbo")
    ELSE IF s = "gpt-4-vision-preview" THEN Ok("Gpt_4Turbo_Vision")
    ELSE Err(UnsupportedModel(s))

(***************************************************************************)
(* serde for Model: derive(Serialize, Deserialize) with per-variant rename *)
(***************************************************************************)
\* a JSON string scalar
JsonString(s) == [type |-> "string", value |-> s]

\* the rename table with the attribute on Gpt3_5Turbo missing, so that the
\* container's rename_all = "kebab-case" names the variant
serde_rename_missing(v) ==
    CASE v = "Gpt3_5Turbo" -> "gpt3-5-turbo"
      [] v = "Gpt_4" -> "gpt-4"
      [] v = "Gpt_4_32k" -> "gpt-4-32k"
      [] v = "Gpt_4Turbo" -> "gpt-4-1106-preview"
      [] v = "Gpt_4o" -> "gpt-4o"
      [] v = "Gpt_4Turbo_Vision" -> "gpt-4-vision-preview"

\* #[serde(rename = "...")] on each variant of Model
serde_rename(v) ==
    CASE v = "Gpt3_5Turbo" -> "gpt-3.5-turbo"
      [] v = "Gpt_4" -> "gpt-4"
      [] v = "Gpt_4_32k" -> "gpt-4-32k"
      [] v = "Gpt_4Turbo" -> "gpt-4-1106-preview"
      [] v = "Gpt_4o" -> "gpt-4o"
      [] v = "Gpt_4Turbo_Vision" -> "gpt-4-vision-preview"

\* the derived VARIANTS constant: the wire names in declaration order
VARIANTS == [i \in 1..Len(ModelVariants) |-> serde_rename(ModelVariants[i])]

\* serde::de::Error::unknown_variant(value, VARIANTS)
unknown_variant(value, expected) ==
    [kind |-> "unknown_variant", payload |-> value, expected |-> expected]

\* derived Serialize: serialize_unit_variant writes the renamed name as a
\* JSON string
Model_serialize(v) == JsonString(serde_rename(v))

\* a Deserialize that coerces an unknown name to the first variant
Model_deserialize_default(j) ==
    LET hits == {i \in 1..Len(VARIANTS) : VARIANTS[i] = j.value}
    IN  IF hits # {}
        THEN Ok(ModelVariants[CHOOSE i \in hits : \A k \in hits : i <= k])
        ELSE Ok(ModelVariants[1])

\* a Deserialize whose visitor arms for "gpt-4" and "gpt-4-32k" are swapped
Model_deserialize_swapped(j) ==
    LET hits == {i \in 1..Len(VARIANTS) : VARIANTS[i] = j.value}
        idx == CHOOSE i \in hits : \A k \in hits : i <= k
    IN  IF hits # {}
        THEN Ok(ModelVariants[IF idx = 2 THEN 3 ELSE IF idx = 3 THEN 2 ELSE idx])
        ELSE Err(unknown_variant(j.value, VARIANTS))

\* derived Deserialize, from a JSON string: the generated visitor matches
\* the string against the renamed names in declaration order
Model_deserialize(j) ==
    LET hits == {i \in 1..Len(VARIANTS) : VARIANTS[i] = j.value}
    IN  IF hits # {}
        THEN Ok(ModelVariants[CHOOSE i \in hits : \A k \in hits : i <= k])
        ELSE Err(unknown_variant(j.value, VARIANTS))

(***************************************************************************)
(* enum Role: derive(Serialize, Deserialize), rename_all = "lowercase"     *)
(***************************************************************************)
\* the variant identifiers, spelled out
System == <<"S", "y", "s", "t", "e", "m">>

User == <<"U", "s", "e", "r">>

Assistant == <<"A", "s", "s", "i", "s", "t", "a", "n", "t">>

\* the variants in declaration order
RoleVariants == <<System, User, Assistant>>

Role == {RoleVariants[i] : i \in 1..Len(RoleVariants)}

UpperCase ==
    <<"A", "B", "C", "D", "E", "F", "G", "H", "I", "J", "K", "L", "M",
      "N", "O", "P", "Q", "R", "S", "T", "U", "V", "W", "X", "Y", "Z">>

LowerCase ==
    <<"a", "b", "c", "d", "e", "f", "g", "h", "i", "j", "k", "l", "m",
      "n", "o", "p", "q", "r", "s", "t", "u", "v", "w", "x", "y", "z">>

\* char::to_ascii_lowercase
to_ascii_lowercase(c) ==
    IF \E i \in 1..Len(UpperCase) : UpperCase[i] = c
    THEN LowerCase[CHOOSE i \in 1..Len(UpperCase) : UpperCase[i] = c]
    ELSE c

\* a container without the rename_all attribute: the identifier is the name
rename_all_none(ident) == ident

\* serde's RenameRule::LowerCase applied to a variant identifier
rename_all_lowercase(ident) ==
    [i \in 1..Len(ident) |-> to_ascii_lowercase(ident[i])]

\* the derived VARIANTS constant of Role
ROLE_VARIANTS ==
    [i \in 1..Len(RoleVariants) |-> rename_all_lowercase(RoleVariants[i])]

\* derived Serialize for Role
Role_serialize(r) == JsonString(rename_all_lowercase(r))

\* derived Deserialize for Role, from a JSON string
Role_deserialize(j) ==
    LET hits == {i \in 1..Len(ROLE_VARIANTS) : ROLE_VARIANTS[i] = j.value}
    IN  IF hits # {}
        THEN Ok(RoleVariants[CHOOSE i \in hits : \A k \in hits : i <= k])
        ELSE Err(unknown_variant(j.value, ROLE_VARIANTS))

(***************************************************************************)
(* struct LogitBias { biases: HashMap<u32, f64> }                          *)
(* The map is the set of its entries <<key, value>>.                       *)
(***************************************************************************)
\* HashMap::get
HashMap_get(m, k) ==
    IF \E e \in m : e[1] = k
    THEN Some((CHOOSE e \in m : e[1] = k)[2])
    ELSE None

\* an insert that keeps the entry already stored under the key
HashMap_insert_keep(m, k, b) ==
    IF \E e \in m : e[1] = k THEN m ELSE m \cup {<<k, b>>}

\* HashMap::insert: the entry under the key is replaced
HashMap_insert(m, k, b) == {e \in m : e[1] # k} \cup {<<k, b>>}

(***************************************************************************)
(* Inputs                                                                  *)
(***************************************************************************)
\* strings handed to Model::from_str and, as JSON strings, to serde
ModelInputs ==
    {"gpt-3.5-turbo", "gpt-4", "gpt-4-32k", "gpt-4o", "gpt-4-1106-preview",
     "gpt-4-vision-preview",
     "GPT-4", " gpt-4", "gpt-4 ", "", "invalid-model", "gpt-4-turbo",
     "gpt3-5-turbo", "Gpt_4", "Gpt3_5Turbo"}

\* strings handed, as JSON strings, to Role's Deserialize
RoleInputs ==
    {<<"s", "y", "s", "t", "e", "m">>, <<"u", "s", "e", "r">>,
     <<"a", "s", "s", "i", "s", "t", "a", "n", "t">>,
     System, User, Assistant,
     <<"S", "Y", "S", "T", "E", "M">>, <<>>, <<"a", "d", "m", "i", "n">>,
     <<" ", "u", "s", "e", "r">>}

(***************************************************************************)
(* State machine: op, arg and res record the last call and its result;     *)
(* biases is the map of the LogitBias under construction; inserted is the  *)
(* sequence of insertions made so far.                                     *)
(***************************************************************************)
Init ==
    /\ op = "new"
    /\ arg = <<>>
    /\ res = <<>>
    /\ biases = {}
    /\ inserted = <<>>

\* Model::from_str(s)
FromStr ==
    \E s \in ModelInputs :
        /\ op' = "from_str"
        /\ arg' = s
        /\ res' = from_str(s)
        /\ UNCHANGED <<biases, inserted>>

\* v.to_string()
ToString ==
    \E v \in Model :
        /\ op' = "to_string"
        /\ arg' = v
        /\ res' = to_string(v)
        /\ UNCHANGED <<biases, inserted>>

\* v.max_tokens()
MaxTokens ==
    \E v \in Model :
        /\ op' = "max_tokens"
        /\ arg' = v
        /\ res' = max_tokens(v)
        /\ UNCHANGED <<biases, inserted>>

\* serde_json::to_string(&v) for a Model
Serialize ==
    \E v \in Model :
        /\ op' = "serialize"
        /\ arg' = v
        /\ res' = Model_serialize(v)
        /\ UNCHANGED <<biases, inserted>>

\* serde_json::from_str::<Model>(j) for a JSON string j
Deserialize ==
    \E s \in ModelInputs :
        /\ op' = "deserialize"
        /\ arg' = JsonString(s)
        /\ res' = Model_deserialize(JsonString(s))
        /\ UNCHANGED <<biases, inserted>>

\* serde_json::to_string(&r) for a Role
RoleSerialize ==
    \E r \in Role :
        /\ op' = "role_serialize"
        /\ arg' = r
        /\ res' = Role_serialize(r)
        /\ UNCHANGED <<biases, inserted>>

\* serde_json::from_str::<Role>(j) for a JSON string j
RoleDeserialize ==
    \E s \in RoleInputs :
        /\ op' = "role_deserialize"
        /\ arg' = JsonString(s)
        /\ res' = Role_deserialize(JsonString(s))
        /\ UNCHANGED <<biases, inserted>>

\* biases.insert(k, b): returns the value previously stored under k
Insert ==
    \E k \in InsertIds, b \in BiasValues :
        /\ Len(inserted) < MaxInserts
        /\ op' = "insert"
        /\ arg' = <<k, b>>
        /\ res' = HashMap_get(biases, k)
        /\ biases' = HashMap_insert(biases, k, b)
        /\ inserted' = Append(inserted, <<k, b>>)

\* logit_bias.biases.get(&k)
Get ==
    \E k \in TokenIds :
        /\ op' = "get"
        /\ arg' = k
        /\ res' = HashMap_get(biases, k)
        /\ UNCHANGED <<biases, inserted>>

Next ==
    \/ FromStr
    \/ ToString
    \/ MaxTokens
    \/ Serialize
    \/ Deserialize
    \/ RoleSerialize
    \/ RoleDeserialize
    \/ Insert
    \/ Get

Spec == Init /\ [][Next]_vars

(***************************************************************************)
(* Properties                                                              *)
(***************************************************************************)
\* the six canonical wire strings
CanonicalStrings ==
    {"gpt-3.5-turbo", "gpt-4", "gpt-4-32k", "gpt-4-1106-preview", "gpt-4o",
     "gpt-4-vision-preview"}

\* C1: parsing the string Display produced for a variant returns that
\* variant, and no two variants share a canonical string.
DisplayThenParse ==
    /\ op = "to_string" => from_str(res) = Ok(arg)
    /\ \A v, w \in Model : to_string(v) = to_string(w) => v = w
    /\ \A v \in Model : from_str(to_string(v)) = Ok(v)

DisplayThenParseWitness ==
    /\ op = "to_string"
    /\ arg = "Gpt_4o"
    /\ res = "gpt-4o"

\* C2: for every string from_str accepts, Display of the parsed variant is
\* that string again: from_str accepts no alias.
ParseThenDisplay ==
    (op = "from_str" /\ res.ok) => to_string(res.val) = arg

ParseThenDisplayWitness ==
    /\ op = "from_str"
    /\ arg = "gpt-4-1106-preview"
    /\ res = Ok("Gpt_4Turbo")

MaxTokensTable ==
    /\ op = "max_tokens" =>
        /\ res > 0
        /\ arg = "Gpt3_5Turbo" => res = 4096
        /\ arg = "Gpt_4" => res = 8192
        /\ arg = "Gpt_4_32k" => res = 32768
        /\ arg = "Gpt_4Turbo" => res = 128000
        /\ arg = "Gpt_4o" => res = 128000
        /\ arg = "Gpt_4Turbo_Vision" => res = 128000
    /\ \A v \in Model : max_tokens(v) \in Nat \ {0}

MaxTokensTableWitness ==
    /\ op = "max_tokens"
    /\ arg = "Gpt_4_32k"
    /\ res = 32768

\* C5: serializing a variant produces the JSON string scalar holding the
\* string Display produces for it, never the variant's identifier.
SerializeIsDisplay ==
    op = "serialize" =>
        /\ res.type = "string"
        /\ res.value = to_string(arg)
        /\ res.value # arg

SerializeIsDisplayWitness ==
    /\ op = "serialize"
    /\ arg = "Gpt3_5Turbo"
    /\ res.value = "gpt-3.5-turbo"

\* C6: deserializing what serialization produced returns the variant, and
\* deserializing a canonical string returns the variant from_str returns.
CodecRoundTrip ==
    /\ op = "serialize" => Model_deserialize(res) = Ok(arg)
    /\ (op = "deserialize" /\ arg.value \in CanonicalStrings) =>
        /\ res.ok
        /\ res = from_str(arg.value)

CodecRoundTripWitness ==
    /\ op = "deserialize"
    /\ arg.value = "gpt-4-32k"
    /\ res = Ok("Gpt_4_32k")

\* C7 as stated: deserializing a non-canonical string fails with the
\* UnsupportedModel error, carrying the string, that from_str raises.
DecodeRaisesUnsupportedModel ==
    (op = "deserialize" /\ arg.value \notin CanonicalStrings) =>
        /\ ~res.ok
        /\ res.err.kind = "UnsupportedModel"
        /\ res.err.payload = arg.value

\* C7: deserializing a non-canonical string fails with serde's
\* unknown-variant error carrying the string; it is never coerced to a
\* variant.
DecodeRejects ==
    (op = "deserialize" /\ arg.value \notin CanonicalStrings) =>
        /\ ~res.ok
        /\ res.err.kind = "unknown_variant"
        /\ res.err.payload = arg.value

DecodeRejectsWitness ==
    /\ op = "deserialize"
    /\ arg.value = "GPT-4"
    /\ ~res.ok

\* the bias of the most recent insertion for k, if any
LastInserted(k) ==
    LET at == {i \in 1..Len(inserted) : inserted[i][1] = k}
    IN  IF at = {}
        THEN None
        ELSE Some(inserted[CHOOSE i \in at : \A j \in at : j <= i][2])

\* C8: lookup returns the bias of the most recent insertion for the id,
\* each key occurs at most once, and an id never inserted is absent, which
\* differs from a present zero bias.
LastWriteWins ==
    /\ \A k \in TokenIds : HashMap_get(biases, k) = LastInserted(k)
    /\ \A e, f \in biases : e[1] = f[1] => e = f
    /\ op = "get" => res = LastInserted(arg)
    /\ (op = "get" /\ \A i \in 1..Len(inserted) : inserted[i][1] # arg) =>
        /\ res = None
        /\ res # Some(0)

LastWriteWinsWitness ==
    /\ op = "get"
    /\ arg = 42
    /\ inserted = <<<<42, 25>>, <<123, -13>>, <<42, 0>>>>
    /\ res = Some(0)

\* the three lowercase wire names of Role
RoleWireNames ==
    {<<"s", "y", "s", "t", "e", "m">>, <<"u", "s", "e", "r">>,
     <<"a", "s", "s", "i", "s", "t", "a", "n", "t">>}

\* C9: Role has three values serialized as "system", "user", "assistant";
\* serialization is injective, deserialization inverts it, and any other
\* string fails to deserialize.
RoleCodec ==
    /\ Cardinality(Role) = 3
    /\ op = "role_serialize" =>
        /\ res.type = "string"
        /\ arg = System => res.value = <<"s", "y", "s", "t", "e", "m">>
        /\ arg = User => res.value = <<"u", "s", "e", "r">>
        /\ arg = Assistant =>
            res.value = <<"a", "s", "s", "i", "s", "t", "a", "n", "t">>
        /\ Role_deserialize(res) = Ok(arg)
    /\ op = "role_deserialize" =>
        /\ res.ok <=> arg.value \in RoleWireNames
        /\ res.ok => Role_serialize(res.val) = arg
    /\ \A r, q \in Role : Role_serialize(r) = Role_serialize(q) => r = q

RoleCodecWitness ==
    /\ op = "role_deserialize"
    /\ arg.value = System
    /\ ~res.ok

=============================================================================
